---- MODULE Spec2Model ----
(* ARR rollforward pipeline of saas_data_engineering.py:                      *)
(* step3_feature_engineering and step4_arr_calculations over a small ledger.  *)
(* Amounts are exact integers; a float NaN / inf is a tagged value.           *)
EXTENDS Integers, Sequences, FiniteSets, TLC

VARIABLES pc, subscriptions_df, transactions_df, current_date, all_months,
          monthly_arr_data, month_end, active_subs_month,
          arr_summary_df, arr_rollforward_df, ym_in, ym_out,
          exported, validation_issues, validation_passed,
          subscriptions, segments,
          arr_summary, arr_rollforward, loaded, load_ok, response, steps_run,
          missing_files

vars == <<pc, subscriptions_df, transactions_df, current_date, all_months,
          monthly_arr_data, month_end, active_subs_month,
          arr_summary_df, arr_rollforward_df, ym_in, ym_out,
          exported, validation_issues, validation_passed,
          subscriptions, segments,
          arr_summary, arr_rollforward, loaded, load_ok, response, steps_run,
          missing_files>>

\* The globals of app.py besides subscriptions, and the last response
api_state == <<arr_summary, arr_rollforward, loaded, load_ok, response>>

\* What the export, the validation and the API have produced
run_out == <<exported, validation_issues, validation_passed,
             subscriptions, segments, api_state>>

\* ---------------------------------------------------------------- bounds
MaxSubs == 2
MaxTxns == 2
YearLo == 1895
YearHi == 2105

\* ------------------------------------------------------------- calendar
\* A date is <<year, month, day>>; NaT is the missing timestamp.
NaT == <<0, 0, 0>>

IsLeap(y) == (y % 4 = 0) /\ ((y % 100 # 0) \/ (y % 400 = 0))

DaysInMonth(y, m) ==
  IF m \in {4, 6, 9, 11} THEN 30
  ELSE IF m = 2 THEN (IF IsLeap(y) THEN 29 ELSE 28)
  ELSE 31

NextDay(dt) ==
  IF dt[3] < DaysInMonth(dt[1], dt[2]) THEN <<dt[1], dt[2], dt[3] + 1>>
  ELSE IF dt[2] < 12 THEN <<dt[1], dt[2] + 1, 1>>
  ELSE <<dt[1] + 1, 1, 1>>

PrevDay(dt) ==
  IF dt[3] > 1 THEN <<dt[1], dt[2], dt[3] - 1>>
  ELSE IF dt[2] > 1 THEN <<dt[1], dt[2] - 1, DaysInMonth(dt[1], dt[2] - 1)>>
  ELSE <<dt[1] - 1, 12, 31>>

RECURSIVE PlusDays(_, _)
\* datetime + timedelta(days=n)
PlusDays(dt, n) == IF n = 0 THEN dt ELSE PlusDays(NextDay(dt), n - 1)

RECURSIVE MinusDays(_, _)
\* datetime - timedelta(days=n)
MinusDays(dt, n) == IF n = 0 THEN dt ELSE MinusDays(PrevDay(dt), n - 1)

\* Timestamp comparison a <= b, a > b (both present)
DateLE(a, b) ==
  \/ a[1] < b[1]
  \/ a[1] = b[1] /\ a[2] < b[2]
  \/ a[1] = b[1] /\ a[2] = b[2] /\ a[3] <= b[3]

DateGT(a, b) == ~DateLE(a, b)

\* ------------------------------------------------- strftime / strptime
\* A string is a sequence of code points: '0'..'9' are 48..57, '-' is 45.
Digit(n) == 48 + n
Dash == 45

Pad2(n) == <<Digit(n \div 10), Digit(n % 10)>>

Pad4(n) == <<Digit(n \div 1000), Digit((n \div 100) % 10),
             Digit((n \div 10) % 10), Digit(n % 10)>>

\* dt.strftime('%Y-%m')
StrfYm(dt) == Pad4(dt[1]) \o <<Dash>> \o Pad2(dt[2])

\* dt.strftime('%Y-%m-%d')
StrfYmd(dt) == StrfYm(dt) \o <<Dash>> \o Pad2(dt[3])

\* datetime.strptime(month, '%Y-%m'): first day of the month
StrpYm(s) ==
  <<(s[1] - 48) * 1000 + (s[2] - 48) * 100 + (s[3] - 48) * 10 + (s[4] - 48),
    (s[6] - 48) * 10 + (s[7] - 48),
    1>>

RECURSIVE StrLess(_, _)
\* Python's str < str: lexicographic on code points
StrLess(a, b) ==
  IF b = <<>> THEN FALSE
  ELSE IF a = <<>> THEN TRUE
  ELSE IF Head(a) # Head(b) THEN Head(a) < Head(b)
  ELSE StrLess(Tail(a), Tail(b))

RECURSIVE SortedStrsDescending(_)
\* variant: sorted(..., reverse=True)
SortedStrsDescending(S) ==
  IF S = {} THEN <<>>
  ELSE LET hi == CHOOSE x \in S : \A z \in S \ {x} : StrLess(z, x)
       IN <<hi>> \o SortedStrsDescending(S \ {hi})

RECURSIVE SortedStrs(_)
\* sorted(...) of a set of strings
SortedStrs(S) ==
  IF S = {} THEN <<>>
  ELSE LET lo == CHOOSE x \in S : \A z \in S \ {x} : StrLess(x, z)
       IN <<lo>> \o SortedStrs(S \ {lo})

\* variant: two days added instead of four
MonthEndOvershootShort(month_date) ==
  PlusDays(<<month_date[1], month_date[2], 28>>, 2)

\* month_date.replace(day=28) + timedelta(days=4)
MonthEndOvershoot(month_date) == PlusDays(<<month_date[1], month_date[2], 28>>, 4)

\* The month_end of a 'YYYY-MM' key
MonthEnd(month) ==
  LET month_date == StrpYm(month)
      over == MonthEndOvershoot(month_date)
  IN MinusDays(over, over[3])

\* ------------------------------------------------------------- numbers
\* A float column value: a number, NaN, +inf or -inf.
Num(v) == [kind |-> "num", val |-> v]
NaN == [kind |-> "nan", val |-> 0]
PosInf == [kind |-> "inf", val |-> 0]
NegInf == [kind |-> "neginf", val |-> 0]

Abs(x) == IF x < 0 THEN -x ELSE x

\* n / d rounded to the nearest integer, ties to even (numpy round), d # 0
RoundDiv(n, d) ==
  LET nn == IF d < 0 THEN -n ELSE n
      dd == Abs(d)
      q == nn \div dd
      r == nn % dd
  IN IF 2 * r < dd THEN q
     ELSE IF 2 * r > dd THEN q + 1
     ELSE IF q % 2 = 0 THEN q ELSE q + 1

RECURSIVE SumOver(_, _)
\* sum of f[i] over a finite index set
SumOver(f, S) ==
  IF S = {} THEN 0
  ELSE LET i == CHOOSE x \in S : TRUE IN f[i] + SumOver(f, S \ {i})

\* ------------------------------------------------------------ the ledger
TxnTypes == {"new", "expansion", "contraction", "churn"}

\* The subscription rows a run may load: (customer, start, end, arr).
\* Rows 5 and 6 have end_date <= start_date.
SubKinds == {<<1, <<2024, 1, 31>>, NaT, 600>>,
             <<1, <<2024, 1, 31>>, <<2024, 2, 29>>, 1200>>,
             <<2, <<2024, 2, 29>>, NaT, 1200>>,
             <<2, <<2024, 2, 29>>, <<2024, 3, 15>>, 600>>,
             <<1, <<2024, 1, 31>>, <<2024, 1, 31>>, 600>>,
             <<2, <<2024, 2, 29>>, <<2024, 1, 31>>, 1200>>}

\* The transaction rows a run may load: (date, type, monthly amount).
TxnKinds == {<<<<2024, 1, 31>>, "new", 100>>,
             <<<<2024, 1, 31>>, "contraction", -50>>,
             <<<<2024, 2, 29>>, "new", 100>>,
             <<<<2024, 2, 29>>, "expansion", 50>>,
             <<<<2024, 2, 29>>, "contraction", 50>>,
             <<<<2024, 2, 29>>, "churn", 50>>,
             <<<<2024, 2, 29>>, "churn", -50>>,
             <<<<2024, 3, 1>>, "new", 50>>}

\* datetime.now() of the run
NowDates == {<<2024, 3, 31>>}

\* Rows as loaded and cleaned (step1, step2); the columns step3 adds are
\* not yet set: is_active FALSE, customer_segment "NA", year_month empty.
SubRows ==
  {[customer_id |-> k[1], start_date |-> k[2], end_date |-> k[3],
    arr_amount |-> k[4], is_active |-> FALSE, customer_segment |-> "NA"] :
     k \in SubKinds}

TxnRows ==
  {[transaction_date |-> k[1], transaction_type |-> k[2], amount |-> k[3],
    year_month |-> <<>>, annualized_amount |-> 0] : k \in TxnKinds}

SeqsUpTo(S, n) == UNION {[1..k -> S] : k \in 0..n}

\* ------------------------------------------------------ step 3 features
\* variant: a subscription still counts on its end date
IsActiveAtClosed(sub, d) ==
  /\ DateLE(sub.start_date, d)
  /\ (sub.end_date = NaT \/ DateLE(d, sub.end_date))

\* subscription status: start <= now and (end is NaT or end > now)
IsActiveAt(sub, d) ==
  /\ DateLE(sub.start_date, d)
  /\ (sub.end_date = NaT \/ DateGT(sub.end_date, d))

\* pd.cut(arr_amount, bins=[0, 600, 2400, 6000, inf]): right-closed bins
CustomerSegment(a) ==
  IF a <= 0 THEN "NaN"
  ELSE IF a <= 600 THEN "SMB"
  ELSE IF a <= 2400 THEN "Mid-Market"
  ELSE IF a <= 6000 THEN "Enterprise"
  ELSE "Strategic"

\* variant: abs() applied to every type
AnnualizedAmountAbs(row) == Abs(row.amount) * 12

\* row['amount'] * 12 for new / expansion / contraction, abs(amount) * 12 else
AnnualizedAmount(row) ==
  IF row.transaction_type \in {"new", "expansion", "contraction"}
  THEN row.amount * 12
  ELSE Abs(row.amount) * 12

Step3Subs(subs, now) ==
  [i \in 1..Len(subs) |->
     [subs[i] EXCEPT !.is_active = IsActiveAt(subs[i], now),
                     !.customer_segment = CustomerSegment(subs[i].arr_amount)]]

Step3Txns(txns) ==
  [i \in 1..Len(txns) |->
     [txns[i] EXCEPT !.year_month = StrfYm(txns[i].transaction_date),
                     !.annualized_amount = AnnualizedAmount(txns[i])]]

\* ------------------------------------------------- step 4 calculations
\* sum of annualized_amount over the month's transactions of one type
TypeSum(txns, month, type) ==
  SumOver([i \in 1..Len(txns) |-> txns[i].annualized_amount],
          {i \in 1..Len(txns) : txns[i].year_month = month
                                /\ txns[i].transaction_type = type})

\* row indices of the subscriptions active at month_end
\* variant: the rows flagged is_active when the run took place
ActiveSubsMonthFlagged(subs, d) == {i \in 1..Len(subs) : subs[i].is_active = TRUE}

ActiveSubsMonth(subs, d) == {i \in 1..Len(subs) : IsActiveAt(subs[i], d)}

\* variant: churn added instead of subtracted
NetNewArrChurnAdded(new_arr, expansion_arr, contraction_arr, churned_arr) ==
  new_arr + expansion_arr - contraction_arr + churned_arr

\* net_new_arr of a month
NetNewArr(new_arr, expansion_arr, contraction_arr, churned_arr) ==
  new_arr + expansion_arr - contraction_arr - churned_arr

\* one entry of monthly_arr_data
MonthlyRow(subs, txns, month) ==
  LET new_arr == TypeSum(txns, month, "new")
      expansion_arr == TypeSum(txns, month, "expansion")
      contraction_arr == TypeSum(txns, month, "contraction")
      churned_arr == TypeSum(txns, month, "churn")
      d == MonthEnd(month)
      act == ActiveSubsMonth(subs, d)
      month_arr == SumOver([i \in 1..Len(subs) |-> subs[i].arr_amount], act)
      month_customers == Cardinality(act)
  IN [month |-> month,
      month_date |-> StrfYmd(d),
      new_arr |-> new_arr,
      expansion_arr |-> expansion_arr,
      contraction_arr |-> contraction_arr,
      churned_arr |-> churned_arr,
      net_new_arr |-> NetNewArr(new_arr, expansion_arr, contraction_arr, churned_arr),
      current_arr |-> month_arr,
      active_customers |-> month_customers,
      arr_per_customer |-> IF month_customers > 0
                           THEN <<month_arr, month_customers>> ELSE <<0, 1>>]

\* current_arr.shift(1)
PreviousArr(data, i) == IF i = 1 THEN NaN ELSE Num(data[i - 1].current_arr)

\* current_arr - previous_arr
GrowthAmount(cur, prev) == IF prev.kind = "num" THEN Num(cur - prev.val) ELSE NaN

\* (arr_growth_amount / previous_arr * 100).round(2), in hundredths of a percent
GrowthRate(amt, prev) ==
  IF amt.kind # "num" \/ prev.kind # "num" THEN NaN
  ELSE IF prev.val = 0
       THEN (IF amt.val > 0 THEN PosInf ELSE IF amt.val < 0 THEN NegInf ELSE NaN)
  ELSE Num(RoundDiv(amt.val * 10000, prev.val))

\* arr_summary_df: monthly_arr_data with the three growth columns
ArrSummary(data) ==
  [i \in 1..Len(data) |->
     LET prev == PreviousArr(data, i)
         amt == GrowthAmount(data[i].current_arr, prev)
     IN [month |-> data[i].month,
         month_date |-> data[i].month_date,
         new_arr |-> data[i].new_arr,
         expansion_arr |-> data[i].expansion_arr,
         contraction_arr |-> data[i].contraction_arr,
         churned_arr |-> data[i].churned_arr,
         net_new_arr |-> data[i].net_new_arr,
         current_arr |-> data[i].current_arr,
         active_customers |-> data[i].active_customers,
         arr_per_customer |-> data[i].arr_per_customer,
         previous_arr |-> prev,
         arr_growth_amount |-> amt,
         arr_growth_rate |-> GrowthRate(amt, prev)]]

\* variant: the row's own current_arr instead of the previous row's
StartingArrSameRow(summary, i) == IF i = 1 THEN 0 ELSE summary[i].current_arr

\* starting_arr of rollforward row i (1-based; the code's i == 0 is row 1)
StartingArr(summary, i) == IF i = 1 THEN 0 ELSE summary[i - 1].current_arr

\* variant: ending_arr from the bridge arithmetic
EndingArrFromBridge(summary, i) ==
  StartingArr(summary, i) + summary[i].new_arr + summary[i].expansion_arr
    - summary[i].contraction_arr - summary[i].churned_arr

\* ending_arr of rollforward row i: row['current_arr']
EndingArr(summary, i) == summary[i].current_arr

\* arr_rollforward_df
Rollforward(summary) ==
  [i \in 1..Len(summary) |->
     [month |-> summary[i].month,
      starting_arr |-> StartingArr(summary, i),
      new_arr |-> summary[i].new_arr,
      expansion_arr |-> summary[i].expansion_arr,
      contraction_arr |-> -summary[i].contraction_arr,
      churned_arr |-> -summary[i].churned_arr,
      ending_arr |-> EndingArr(summary, i),
      net_change |-> summary[i].net_new_arr,
      growth_rate |-> summary[i].arr_growth_rate]]

\* ------------------------------------------------------------- actions
\* no response yet
NoResponse == [status |-> 0, error |-> "", body |-> <<>>]

\* app.py before load_data: every global is None
NoApi ==
  /\ arr_summary = <<>>
  /\ arr_rollforward = <<>>
  /\ loaded = {}
  /\ load_ok = "NA"
  /\ response = NoResponse

\* The output directory cleaned_arr_data before step 5 has written it
NotExported == [written |-> FALSE, arr_monthly_summary |-> <<>>,
                arr_rollforward |-> <<>>, subscriptions_clean |-> <<>>]

Init ==
  /\ pc = "step3"
  /\ subscriptions_df \in SeqsUpTo(SubRows, MaxSubs)
  /\ transactions_df \in SeqsUpTo(TxnRows, MaxTxns)
  /\ current_date = NaT
  /\ all_months = <<>>
  /\ monthly_arr_data = <<>>
  /\ month_end = NaT
  /\ active_subs_month = {}
  /\ arr_summary_df = <<>>
  /\ arr_rollforward_df = <<>>
  /\ ym_in = <<>>
  /\ ym_out = NaT
  /\ exported = NotExported
  /\ validation_issues = <<>>
  /\ validation_passed = "NA"
  /\ subscriptions = <<>>
  /\ segments = <<>>
  /\ NoApi
  /\ steps_run = <<"step1", "step2">>
  /\ missing_files = {}

\* step3_feature_engineering
Step3FeatureEngineering ==
  /\ pc = "step3"
  /\ \E now \in NowDates :
       /\ current_date' = now
       /\ subscriptions_df' = Step3Subs(subscriptions_df, now)
  /\ transactions_df' = Step3Txns(transactions_df)
  /\ pc' = "step4"
  /\ steps_run' = Append(steps_run, "step3")
  /\ UNCHANGED missing_files
  /\ UNCHANGED <<all_months, monthly_arr_data, month_end, active_subs_month,
                 arr_summary_df, arr_rollforward_df, ym_in, ym_out, run_out>>

\* On an empty ledger DataFrame.apply(axis=1) returns a frame, not a column;
\* assigning it to annualized_amount raises in some pandas versions.
Step3Raise ==
  /\ pc = "step3"
  /\ Len(transactions_df) = 0
  /\ pc' = "failed"
  /\ steps_run' = Append(steps_run, "step3")
  /\ UNCHANGED missing_files
  /\ UNCHANGED <<subscriptions_df, transactions_df, current_date, all_months,
                 monthly_arr_data, month_end, active_subs_month,
                 arr_summary_df, arr_rollforward_df, ym_in, ym_out, run_out>>

\* step4_arr_calculations up to the loop: all_months, monthly_arr_data = []
Step4Start ==
  /\ pc = "step4"
  /\ all_months' = SortedStrs({transactions_df[i].year_month :
                                 i \in 1..Len(transactions_df)})
  /\ monthly_arr_data' = <<>>
  /\ pc' = "step4_loop"
  /\ steps_run' = Append(steps_run, "step4")
  /\ UNCHANGED missing_files
  /\ UNCHANGED <<subscriptions_df, transactions_df, current_date, month_end,
                 active_subs_month, arr_summary_df, arr_rollforward_df,
                 ym_in, ym_out, run_out>>

\* one iteration of "for month in all_months"
Step4Month ==
  /\ pc = "step4_loop"
  /\ Len(monthly_arr_data) < Len(all_months)
  /\ LET month == all_months[Len(monthly_arr_data) + 1]
     IN /\ month_end' = MonthEnd(month)
        /\ active_subs_month' = ActiveSubsMonth(subscriptions_df, MonthEnd(month))
        /\ monthly_arr_data' =
             Append(monthly_arr_data,
                    MonthlyRow(subscriptions_df, transactions_df, month))
  /\ UNCHANGED <<pc, subscriptions_df, transactions_df, current_date,
                 all_months, arr_summary_df, arr_rollforward_df, ym_in, ym_out, run_out,
                 steps_run, missing_files>>

\* after the loop: growth columns and the rollforward table
Step4Rollforward ==
  /\ pc = "step4_loop"
  /\ Len(monthly_arr_data) = Len(all_months)
  /\ Len(monthly_arr_data) > 0
  /\ arr_summary_df' = ArrSummary(monthly_arr_data)
  /\ arr_rollforward_df' = Rollforward(ArrSummary(monthly_arr_data))
  /\ pc' = "step5"
  /\ UNCHANGED <<subscriptions_df, transactions_df, current_date, all_months,
                 monthly_arr_data, month_end, active_subs_month, ym_in, ym_out, run_out,
                 steps_run, missing_files>>

\* variant: an empty ledger returns empty frames and the run ends normally
Step4ReturnsEmpty ==
  /\ pc = "step4_loop"
  /\ Len(all_months) = 0
  /\ pc' = "done"
  /\ UNCHANGED <<subscriptions_df, transactions_df, current_date, all_months,
                 monthly_arr_data, month_end, active_subs_month,
                 arr_summary_df, arr_rollforward_df, ym_in, ym_out, run_out,
                 steps_run, missing_files>>

\* an empty monthly_arr_data gives a frame without columns:
\* arr_summary_df['current_arr'] raises KeyError
Step4Raise ==
  /\ pc = "step4_loop"
  /\ Len(all_months) = 0
  /\ pc' = "failed"
  /\ UNCHANGED <<subscriptions_df, transactions_df, current_date, all_months,
                 monthly_arr_data, month_end, active_subs_month,
                 arr_summary_df, arr_rollforward_df, ym_in, ym_out, run_out,
                 steps_run, missing_files>>

Next ==
  \/ Step3FeatureEngineering
  \/ Step3Raise
  \/ Step4Start
  \/ Step4Month
  \/ Step4Rollforward
  \/ Step4Raise

Spec == Init /\ [][Next]_vars

\* ------------------------------------------------ step 5 and step 6
\* Bounds of the whole-pipeline runs and of the validator's chains
MaxRunSubs == 1
MaxRunTxns == 2
MaxChain == 2

\* reconciliation tolerance of the validator
Tolerance == 100
\* expected range of ARR per customer
ArrPerCustomerMin == 300
ArrPerCustomerMax == 5000
\* expected range of the average growth rate, in percent
GrowthMin == 0 - 10
GrowthMax == 50

\* latest_month['arr_per_customer'] < 300 or > 5000; the value is n / d
\* variant: the ends of the range are outside it
ArrPerCustomerIssueStrict(latest) ==
  LET n == latest.arr_per_customer[1]
      d == latest.arr_per_customer[2]
  IN n <= ArrPerCustomerMin * d \/ n >= ArrPerCustomerMax * d

\* avg_arr_per_customer < 300 or > 5000, on the fraction n / d
ArrPerCustomerIssue(latest) ==
  LET n == latest.arr_per_customer[1]
      d == latest.arr_per_customer[2]
  IN n < ArrPerCustomerMin * d \/ n > ArrPerCustomerMax * d

\* arr_growth_rate.mean() < -10 or > 50. The mean skips NaN; the mean of
\* nothing is NaN and compares False; an infinite value makes it infinite.
GrowthIssue(summary) ==
  LET idx == 1..Len(summary)
      nums == {i \in idx : summary[i].arr_growth_rate.kind = "num"}
      pinf == \E i \in idx : summary[i].arr_growth_rate.kind = "inf"
      ninf == \E i \in idx : summary[i].arr_growth_rate.kind = "neginf"
      total == SumOver([i \in idx |-> summary[i].arr_growth_rate.val], nums)
  IN IF pinf /\ ninf THEN FALSE
     ELSE IF pinf \/ ninf THEN TRUE
     ELSE IF nums = {} THEN FALSE
     ELSE \/ total < GrowthMin * 100 * Cardinality(nums)
          \/ total > GrowthMax * 100 * Cardinality(nums)

\* calculated_ending - ending_arr of a rollforward row
CalculatedDrift(r) ==
  (r.starting_arr + r.new_arr + r.expansion_arr + r.contraction_arr
     + r.churned_arr) - r.ending_arr

\* abs(calculated_ending - ending_arr) > 100 on arr_rollforward_df.iloc[-1]
RollforwardIssue(rollforward) ==
  Abs(CalculatedDrift(rollforward[Len(rollforward)])) > Tolerance

\* validation_issues of step6_data_validation, in the order they are appended
ValidationIssues(summary, rollforward) ==
  (IF ArrPerCustomerIssue(summary[Len(summary)])
     THEN <<"arr_per_customer">> ELSE <<>>)
  \o (IF GrowthIssue(summary) THEN <<"growth_rate">> ELSE <<>>)
  \o (IF RollforwardIssue(rollforward) THEN <<"rollforward">> ELSE <<>>)

\* step5_export_clean_data: the files of cleaned_arr_data are written
Step5ExportCleanData ==
  /\ pc = "step5"
  /\ exported' = [written |-> TRUE,
                  arr_monthly_summary |-> arr_summary_df,
                  arr_rollforward |-> arr_rollforward_df,
                  subscriptions_clean |-> subscriptions_df]
  /\ pc' = "step6"
  /\ steps_run' = Append(steps_run, "step5")
  /\ UNCHANGED missing_files
  /\ UNCHANGED <<subscriptions_df, transactions_df, current_date, all_months,
                 monthly_arr_data, month_end, active_subs_month,
                 arr_summary_df, arr_rollforward_df, ym_in, ym_out,
                 validation_issues, validation_passed,
                 subscriptions, segments, api_state>>

\* variant: the validator rewrites month_date of the summary
Step6DataValidationRewriting ==
  /\ pc = "step6"
  /\ validation_issues' = ValidationIssues(arr_summary_df, arr_rollforward_df)
  /\ validation_passed' =
       (Len(ValidationIssues(arr_summary_df, arr_rollforward_df)) = 0)
  /\ arr_summary_df' =
       [i \in 1..Len(arr_summary_df) |->
          [arr_summary_df[i] EXCEPT !.month_date = MonthEnd(arr_summary_df[i].month)]]
  /\ pc' = "done"
  /\ steps_run' = Append(steps_run, "step6")
  /\ UNCHANGED missing_files
  /\ UNCHANGED <<subscriptions_df, transactions_df, current_date, all_months,
                 monthly_arr_data, month_end, active_subs_month,
                 arr_rollforward_df, ym_in, ym_out, exported, subscriptions, segments,
                 api_state>>

\* step6_data_validation, and the end of main
Step6DataValidation ==
  /\ pc = "step6"
  /\ validation_issues' = ValidationIssues(arr_summary_df, arr_rollforward_df)
  /\ validation_passed' =
       (Len(ValidationIssues(arr_summary_df, arr_rollforward_df)) = 0)
  /\ pc' = "done"
  /\ steps_run' = Append(steps_run, "step6")
  /\ UNCHANGED missing_files
  /\ UNCHANGED <<subscriptions_df, transactions_df, current_date, all_months,
                 monthly_arr_data, month_end, active_subs_month,
                 arr_summary_df, arr_rollforward_df, ym_in, ym_out,
                 exported, subscriptions, segments,
                 api_state>>

\* ------------------------------------------------- the whole pipeline
\* Subscription rows with a negative or zero arr_amount besides those of
\* SubKinds
RunSubKinds == SubKinds \cup {<<1, <<2024, 1, 31>>, NaT, 0 - 600>>,
                              <<2, <<2024, 1, 31>>, NaT, 0>>}

RunSubRows ==
  {[customer_id |-> k[1], start_date |-> k[2], end_date |-> k[3],
    arr_amount |-> k[4], is_active |-> FALSE, customer_segment |-> "NA"] :
     k \in RunSubKinds}

InitRun ==
  /\ pc = "step3"
  /\ subscriptions_df \in SeqsUpTo(RunSubRows, MaxRunSubs)
  /\ transactions_df \in SeqsUpTo(TxnRows, MaxRunTxns)
  /\ current_date = NaT
  /\ all_months = <<>>
  /\ monthly_arr_data = <<>>
  /\ month_end = NaT
  /\ active_subs_month = {}
  /\ arr_summary_df = <<>>
  /\ arr_rollforward_df = <<>>
  /\ ym_in = <<>>
  /\ ym_out = NaT
  /\ exported = NotExported
  /\ validation_issues = <<>>
  /\ validation_passed = "NA"
  /\ subscriptions = <<>>
  /\ segments = <<>>
  /\ NoApi
  /\ steps_run = <<"step1", "step2">>
  /\ missing_files = {}

NextRun ==
  \/ Next
  \/ Step5ExportCleanData
  \/ Step6DataValidation

SpecRun == InitRun /\ [][NextRun]_vars

\* ------------------------------------- the validator on any small chain
\* Months of a chain handed to the validator:
\* (new, expansion, contraction, churn, current_arr, active customers)
ChainKinds == {<<0, 0, 0, 0, 100000, 50>>,
               <<100000, 0, 0, 0, 100000, 50>>,
               <<5000, 2000, 1000, 3000, 103000, 50>>,
               <<5000, 2000, 1000, 3000, 98000, 50>>,
               <<540, 0, 0, 0, 600, 1>>,
               <<200000, 0, 0, 0, 200000, 100>>,
               <<150, 0, 0, 0, 200300, 100>>,
               <<3000, 0, 0, 0, 103000, 10>>,
               <<300, 0, 0, 0, 300, 1>>}

\* monthly_arr_data made of the chosen months, from 2024-01 on
ChainData(kinds) ==
  [i \in 1..Len(kinds) |->
     LET k == kinds[i]
         month == StrfYm(<<2024, i, 1>>)
     IN [month |-> month,
         month_date |-> StrfYmd(MonthEnd(month)),
         new_arr |-> k[1],
         expansion_arr |-> k[2],
         contraction_arr |-> k[3],
         churned_arr |-> k[4],
         net_new_arr |-> NetNewArr(k[1], k[2], k[3], k[4]),
         current_arr |-> k[5],
         active_customers |-> k[6],
         arr_per_customer |-> IF k[6] > 0 THEN <<k[5], k[6]>> ELSE <<0, 1>>]]

InitValidator ==
  /\ pc = "step6"
  /\ \E kinds \in SeqsUpTo(ChainKinds, MaxChain) :
       /\ Len(kinds) > 0
       /\ monthly_arr_data = ChainData(kinds)
       /\ all_months = [i \in 1..Len(kinds) |-> StrfYm(<<2024, i, 1>>)]
       /\ arr_summary_df = ArrSummary(ChainData(kinds))
       /\ arr_rollforward_df = Rollforward(ArrSummary(ChainData(kinds)))
  /\ subscriptions_df = <<>>
  /\ transactions_df = <<>>
  /\ current_date = NaT
  /\ month_end = NaT
  /\ active_subs_month = {}
  /\ ym_in = <<>>
  /\ ym_out = NaT
  /\ exported = NotExported
  /\ validation_issues = <<>>
  /\ validation_passed = "NA"
  /\ subscriptions = <<>>
  /\ segments = <<>>
  /\ NoApi
  /\ steps_run = <<"step1", "step2", "step3", "step4", "step5">>
  /\ missing_files = {}

NextValidator == Step6DataValidation

SpecValidator == InitValidator /\ [][NextValidator]_vars

\* ------------------------------------------------- the segments API
MaxSegSubs == 3

\* The rows of subscriptions_clean.csv an API process may have loaded:
\* (customer, arr_amount, is_active); the segment is the one step 3 gave.
SegSubKinds ==
  {<<c, a, act>> : c \in {1}, a \in {0 - 600, 0, 600, 700, 1200, 2400, 7000},
                   act \in BOOLEAN}

SegSubRows ==
  {[customer_id |-> k[1], start_date |-> <<2024, 1, 31>>, end_date |-> NaT,
    arr_amount |-> k[2], is_active |-> k[3],
    customer_segment |-> CustomerSegment(k[2])] : k \in SegSubKinds}

\* groupby('customer_segment') sorts its keys and drops the NaN key
SegmentOrder == <<"Enterprise", "Mid-Market", "SMB", "Strategic">>

\* variant: the percentage truncated to a whole number
SegmentPercentageTruncated(arr, total_arr) ==
  IF total_arr > 0 THEN <<(arr * 100) \div total_arr, 1>> ELSE <<0, 1>>

\* (arr_amount / total_arr) * 100 if total_arr > 0 else 0, as n / d
SegmentPercentage(arr, total_arr) ==
  IF total_arr > 0 THEN <<arr * 100, total_arr>> ELSE <<0, 1>>

\* the list get_segments returns for a loaded subscriptions frame
GetSegments(subs) ==
  LET idx == 1..Len(subs)
      active == {i \in idx : subs[i].is_active = TRUE}
      InGroup(g) == {i \in active : subs[i].customer_segment = g}
      groups == SelectSeq(SegmentOrder, LAMBDA g : InGroup(g) # {})
      GroupArr(g) == SumOver([i \in idx |-> subs[i].arr_amount], InGroup(g))
      total_arr == SumOver([n \in 1..Len(groups) |-> GroupArr(groups[n])],
                           1..Len(groups))
  IN [n \in 1..Len(groups) |->
        [segment |-> groups[n],
         arr |-> GroupArr(groups[n]),
         customers |-> Cardinality(InGroup(groups[n])),
         percentage |-> SegmentPercentage(GroupArr(groups[n]), total_arr)]]

InitSegments ==
  /\ pc = "api"
  /\ subscriptions \in SeqsUpTo(SegSubRows, MaxSegSubs)
  /\ segments = <<>>
  /\ arr_summary = <<>>
  /\ arr_rollforward = <<>>
  /\ loaded = {"subscriptions"}
  /\ load_ok = "NA"
  /\ response = NoResponse
  /\ steps_run = <<>>
  /\ missing_files = {}
  /\ subscriptions_df = <<>>
  /\ transactions_df = <<>>
  /\ current_date = NaT
  /\ all_months = <<>>
  /\ monthly_arr_data = <<>>
  /\ month_end = NaT
  /\ active_subs_month = {}
  /\ arr_summary_df = <<>>
  /\ arr_rollforward_df = <<>>
  /\ ym_in = <<>>
  /\ ym_out = NaT
  /\ exported = NotExported
  /\ validation_issues = <<>>
  /\ validation_passed = "NA"

\* An uncaught exception in a view: Flask answers 500
InternalServerError ==
  [status |-> 500, error |-> "Internal Server Error", body |-> <<>>]

\* GET /api/segments; subscriptions = None raises TypeError in the view
ApiSegments ==
  /\ pc = "api"
  /\ IF "subscriptions" \in loaded
       THEN /\ segments' = GetSegments(subscriptions)
            /\ response' = [status |-> 200, error |-> "",
                            body |-> GetSegments(subscriptions)]
       ELSE /\ segments' = segments
            /\ response' = InternalServerError
  /\ pc' = "api_segments"
  /\ UNCHANGED <<subscriptions_df, transactions_df, current_date, all_months,
                 monthly_arr_data, month_end, active_subs_month,
                 arr_summary_df, arr_rollforward_df, ym_in, ym_out,
                 exported, validation_issues, validation_passed, subscriptions,
                 arr_summary, arr_rollforward, loaded, load_ok, steps_run, missing_files>>

\* data_validation_checker.py: (arr_amount / total_segment_arr) * 100 as
\* n / d, with no guard: d = 0 is a division by zero (NaN with numpy floats)
CheckerPercentage(arr_amount, total_segment_arr) ==
  <<arr_amount * 100, total_segment_arr>>

\* segment_totals of validate_dashboard_data with the percentage it prints;
\* round(0) leaves the whole-number sums of these rows as they are
CheckerSegments(subs) ==
  LET idx == 1..Len(subs)
      active == {i \in idx : subs[i].is_active = TRUE}
      InGroup(g) == {i \in active : subs[i].customer_segment = g}
      groups == SelectSeq(SegmentOrder, LAMBDA g : InGroup(g) # {})
      GroupArr(g) == SumOver([i \in idx |-> subs[i].arr_amount], InGroup(g))
      total_segment_arr ==
        SumOver([n \in 1..Len(groups) |-> GroupArr(groups[n])], 1..Len(groups))
  IN [n \in 1..Len(groups) |->
        [segment |-> groups[n],
         arr |-> GroupArr(groups[n]),
         customers |-> Cardinality(InGroup(groups[n])),
         percentage |-> CheckerPercentage(GroupArr(groups[n]),
                                          total_segment_arr)]]

\* the segmentation part of validate_dashboard_data on the same frame
ValidateDashboardSegments ==
  /\ pc = "api"
  /\ "subscriptions" \in loaded
  /\ segments' = CheckerSegments(subscriptions)
  /\ pc' = "checker_segments"
  /\ UNCHANGED <<subscriptions_df, transactions_df, current_date, all_months,
                 monthly_arr_data, month_end, active_subs_month,
                 arr_summary_df, arr_rollforward_df, ym_in, ym_out,
                 exported, validation_issues, validation_passed, subscriptions,
                 api_state, steps_run, missing_files>>

NextSegments ==
  \/ ApiSegments
  \/ ValidateDashboardSegments

SpecSegments == InitSegments /\ [][NextSegments]_vars

\* ------------------------------------------------ the API process
MaxApiChain == 2
MaxApiSubs == 1

\* Months of the exported chain the API may find, as in ChainKinds; the
\* last one has no active customer
ApiChainKinds == {<<100000, 0, 0, 0, 100000, 50>>,
                  <<5000, 2000, 1000, 3000, 103000, 50>>,
                  <<0, 0, 0, 600, 0, 0>>}

DatasetNames == {"arr_summary", "arr_rollforward", "subscriptions"}

\* the order in which load_data reads the files
LoadOrder == <<"arr_summary", "arr_rollforward", "subscriptions">>

\* The files of cleaned_arr_data; a file may hold a header and no row.
\* to_csv / read_csv keep the numbers, booleans and labels of these columns.
InitApi ==
  /\ pc = "load"
  /\ \E kinds \in SeqsUpTo(ApiChainKinds, MaxApiChain),
        subs \in SeqsUpTo(SegSubRows, MaxApiSubs) :
       exported = [written |-> TRUE,
                   arr_monthly_summary |-> ArrSummary(ChainData(kinds)),
                   arr_rollforward |-> Rollforward(ArrSummary(ChainData(kinds))),
                   subscriptions_clean |-> subs]
  /\ subscriptions_df = <<>>
  /\ transactions_df = <<>>
  /\ current_date = NaT
  /\ all_months = <<>>
  /\ monthly_arr_data = <<>>
  /\ month_end = NaT
  /\ active_subs_month = {}
  /\ arr_summary_df = <<>>
  /\ arr_rollforward_df = <<>>
  /\ ym_in = <<>>
  /\ ym_out = NaT
  /\ validation_issues = <<>>
  /\ validation_passed = "NA"
  /\ subscriptions = <<>>
  /\ segments = <<>>
  /\ NoApi
  /\ steps_run = <<>>
  /\ missing_files = {}

\* the globals load_data has assigned when the first k read_csv calls
\* succeed: each is assigned as soon as its file is read
LoadedAfter(k) == {LoadOrder[i] : i \in 1..k}

\* load_data(): the read of file k + 1 raises (missing or unreadable file),
\* or all three succeed (k = 3)
LoadData ==
  /\ pc = "load"
  /\ \E k \in 0..3 :
       /\ loaded' = LoadedAfter(k)
       /\ arr_summary' = IF "arr_summary" \in LoadedAfter(k)
                           THEN exported.arr_monthly_summary ELSE <<>>
       /\ arr_rollforward' = IF "arr_rollforward" \in LoadedAfter(k)
                               THEN exported.arr_rollforward ELSE <<>>
       /\ subscriptions' = IF "subscriptions" \in LoadedAfter(k)
                             THEN exported.subscriptions_clean ELSE <<>>
       /\ load_ok' = IF k = 3 THEN "True" ELSE "False"
  /\ pc' = "api"
  /\ UNCHANGED <<subscriptions_df, transactions_df, current_date, all_months,
                 monthly_arr_data, month_end, active_subs_month,
                 arr_summary_df, arr_rollforward_df, ym_in, ym_out,
                 exported, validation_issues, validation_passed, segments,
                 response, steps_run, missing_files>>

DataNotLoaded == [status |-> 500, error |-> "Data not loaded", body |-> <<>>]

\* iloc[-1] on a frame without rows, caught by the view's except
IndexOutOfBounds ==
  [status |-> 500, error |-> "single positional indexer is out-of-bounds",
   body |-> <<>>]

\* variant: a division by zero raises and the view answers 500
KpisBodyRaising(summary) ==
  LET latest == summary[Len(summary)]
      previous == IF Len(summary) > 1 THEN summary[Len(summary) - 1] ELSE latest
  IN IF latest.active_customers = 0
       THEN [status |-> 500, error |-> "division by zero", body |-> <<>>]
       ELSE [status |-> 200, error |-> "",
             body |-> [current_arr |-> latest.current_arr,
                       active_customers |-> latest.active_customers,
                       arr_per_customer |-> <<latest.current_arr,
                                              latest.active_customers>>,
                       monthly_growth |-> IF latest.arr_growth_rate.kind = "nan"
                                            THEN Num(0)
                                            ELSE latest.arr_growth_rate,
                       arr_change |-> latest.current_arr - previous.current_arr,
                       customer_change |-> latest.active_customers
                                             - previous.active_customers]]

\* the answer of get_kpis on a frame with rows; arr_per_customer is the
\* quotient n / d of numpy scalars, inf or NaN when d = 0, never an exception
KpisBody(summary) ==
  LET latest == summary[Len(summary)]
      previous == IF Len(summary) > 1 THEN summary[Len(summary) - 1] ELSE latest
  IN [status |-> 200, error |-> "",
      body |-> [current_arr |-> latest.current_arr,
                active_customers |-> latest.active_customers,
                arr_per_customer |-> <<latest.current_arr,
                                       latest.active_customers>>,
                monthly_growth |-> IF latest.arr_growth_rate.kind = "nan"
                                     THEN Num(0) ELSE latest.arr_growth_rate,
                arr_change |-> latest.current_arr - previous.current_arr,
                customer_change |-> latest.active_customers
                                      - previous.active_customers]]

\* GET /api/kpis
ApiKpis ==
  /\ pc = "api"
  /\ response' = IF "arr_summary" \notin loaded THEN DataNotLoaded
                 ELSE IF Len(arr_summary) = 0 THEN IndexOutOfBounds
                 ELSE KpisBody(arr_summary)
  /\ pc' = "api_kpis"
  /\ UNCHANGED <<subscriptions_df, transactions_df, current_date, all_months,
                 monthly_arr_data, month_end, active_subs_month,
                 arr_summary_df, arr_rollforward_df, ym_in, ym_out,
                 exported, validation_issues, validation_passed,
                 subscriptions, segments,
                 arr_summary, arr_rollforward, loaded, load_ok, steps_run, missing_files>>

\* the answer of get_waterfall on a frame with rows
WaterfallBody(rollforward) ==
  LET latest == rollforward[Len(rollforward)]
  IN [status |-> 200, error |-> "",
      body |-> [month |-> latest.month,
                starting_arr |-> latest.starting_arr,
                new_arr |-> latest.new_arr,
                expansion_arr |-> latest.expansion_arr,
                contraction_arr |-> latest.contraction_arr,
                churned_arr |-> latest.churned_arr,
                ending_arr |-> latest.ending_arr]]

\* GET /api/waterfall
ApiWaterfall ==
  /\ pc = "api"
  /\ response' = IF "arr_rollforward" \notin loaded THEN DataNotLoaded
                 ELSE IF Len(arr_rollforward) = 0 THEN IndexOutOfBounds
                 ELSE WaterfallBody(arr_rollforward)
  /\ pc' = "api_waterfall"
  /\ UNCHANGED <<subscriptions_df, transactions_df, current_date, all_months,
                 monthly_arr_data, month_end, active_subs_month,
                 arr_summary_df, arr_rollforward_df, ym_in, ym_out,
                 exported, validation_issues, validation_passed,
                 subscriptions, segments,
                 arr_summary, arr_rollforward, loaded, load_ok, steps_run, missing_files>>

NextApi ==
  \/ LoadData
  \/ ApiKpis
  \/ ApiWaterfall
  \/ ApiSegments

SpecApi == InitApi /\ [][NextApi]_vars

\* ------------------------------------------- two runs on the same files
MaxTwiceSubs == 2
MaxTwiceTxns == 2

\* datetime.now() of a run
RerunDates == {<<2024, 2, 15>>, <<2024, 3, 31>>}

TwiceSubKinds == {<<1, <<2024, 1, 31>>, NaT, 600>>,
                  <<2, <<2024, 2, 29>>, NaT, 1200>>,
                  <<1, <<2024, 1, 31>>, <<2024, 2, 29>>, 1200>>}

TwiceSubRows ==
  {[customer_id |-> k[1], start_date |-> k[2], end_date |-> k[3],
    arr_amount |-> k[4], is_active |-> FALSE, customer_segment |-> "NA"] :
     k \in TwiceSubKinds}

TwiceTxnKinds == {<<<<2024, 1, 31>>, "new", 100>>,
                  <<<<2024, 2, 29>>, "contraction", 50>>,
                  <<<<2024, 2, 29>>, "churn", 0 - 50>>,
                  <<<<2024, 3, 1>>, "new", 50>>}

TwiceTxnRows == {r \in TxnRows :
                   <<r.transaction_date, r.transaction_type, r.amount>>
                     \in TwiceTxnKinds}

\* the row orders of a file of n rows
RowOrders(n) ==
  {p \in [1..n -> 1..n] : \A i, j \in 1..n : p[i] = p[j] => i = j}

Permute(rows, p) == [i \in 1..Len(rows) |-> rows[p[i]]]

InitTwice ==
  /\ pc = "step3"
  /\ subscriptions_df \in SeqsUpTo(TwiceSubRows, MaxTwiceSubs)
  /\ transactions_df \in SeqsUpTo(TwiceTxnRows, MaxTwiceTxns)
  /\ current_date = NaT
  /\ all_months = <<>>
  /\ monthly_arr_data = <<>>
  /\ month_end = NaT
  /\ active_subs_month = {}
  /\ arr_summary_df = <<>>
  /\ arr_rollforward_df = <<>>
  /\ ym_in = <<>>
  /\ ym_out = NaT
  /\ exported = NotExported
  /\ validation_issues = <<>>
  /\ validation_passed = "NA"
  /\ subscriptions = <<>>
  /\ segments = <<>>
  /\ NoApi
  /\ steps_run = <<"step1", "step2">>
  /\ missing_files = {}

\* main() started again after a completed run, up to the end of feature
\* engineering: the same files read with their rows in another order, at
\* another datetime.now(); cleaned_arr_data still holds the first run's files
MainAgain ==
  /\ pc = "done"
  /\ Len(steps_run) = 6
  /\ \E now \in RerunDates,
        p \in RowOrders(Len(subscriptions_df)),
        q \in RowOrders(Len(transactions_df)) :
       /\ current_date' = now
       /\ subscriptions_df' = Step3Subs(Permute(subscriptions_df, p), now)
       /\ transactions_df' = Step3Txns(Permute(transactions_df, q))
  /\ steps_run' = steps_run \o <<"step1", "step2", "step3">>
  /\ UNCHANGED missing_files
  /\ pc' = "step4"
  /\ UNCHANGED <<all_months, monthly_arr_data, month_end, active_subs_month,
                 arr_summary_df, arr_rollforward_df, ym_in, ym_out, run_out>>

NextTwice ==
  \/ NextRun
  \/ MainAgain

SpecTwice == InitTwice /\ [][NextTwice]_vars

\* -------------------------------------------- main() from the files
RequiredFiles ==
  {"saas_customers.csv", "saas_subscriptions.csv", "saas_transactions.csv"}

\* What os.path.exists may find missing
MissingKinds == {{}, {"saas_transactions.csv"}, RequiredFiles}

\* A transaction row without a date: pd.to_datetime gives NaT
UndatedTxnRows ==
  {[transaction_date |-> NaT, transaction_type |-> "new", amount |-> 100,
    year_month |-> <<>>, annualized_amount |-> 0]}

\* The frames hold the rows of the files that exist
InitMain ==
  /\ pc = "step1"
  /\ missing_files \in MissingKinds
  /\ subscriptions_df \in SeqsUpTo(RunSubRows, MaxRunSubs)
  /\ transactions_df \in SeqsUpTo(TwiceTxnRows \cup UndatedTxnRows, MaxRunTxns)
  /\ current_date = NaT
  /\ all_months = <<>>
  /\ monthly_arr_data = <<>>
  /\ month_end = NaT
  /\ active_subs_month = {}
  /\ arr_summary_df = <<>>
  /\ arr_rollforward_df = <<>>
  /\ ym_in = <<>>
  /\ ym_out = NaT
  /\ exported = NotExported
  /\ validation_issues = <<>>
  /\ validation_passed = "NA"
  /\ subscriptions = <<>>
  /\ segments = <<>>
  /\ NoApi
  /\ steps_run = <<>>

\* variant: main goes on although files are missing
Step1DataIngestionContinues ==
  /\ pc = "step1"
  /\ pc' = "step2"
  /\ steps_run' = Append(steps_run, "step1")
  /\ UNCHANGED <<subscriptions_df, transactions_df, current_date, all_months,
                 monthly_arr_data, month_end, active_subs_month,
                 arr_summary_df, arr_rollforward_df, ym_in, ym_out, run_out,
                 missing_files>>

\* step1_data_ingestion and the test of main: with a missing file, or when
\* a read raises, it returns None and main returns
Step1DataIngestion ==
  /\ pc = "step1"
  /\ \E readable \in BOOLEAN :
       pc' = IF missing_files = {} /\ readable THEN "step2" ELSE "stopped"
  /\ steps_run' = Append(steps_run, "step1")
  /\ UNCHANGED <<subscriptions_df, transactions_df, current_date, all_months,
                 monthly_arr_data, month_end, active_subs_month,
                 arr_summary_df, arr_rollforward_df, ym_in, ym_out, run_out,
                 missing_files>>

\* transactions_df.dropna(subset=['transaction_date', 'amount']); the
\* amounts of these rows are numbers
Step2Txns(txns) == SelectSeq(txns, LAMBDA r : r.transaction_date # NaT)

\* step2_data_cleaning
Step2DataCleaning ==
  /\ pc = "step2"
  /\ transactions_df' = Step2Txns(transactions_df)
  /\ pc' = "step3"
  /\ steps_run' = Append(steps_run, "step2")
  /\ UNCHANGED <<subscriptions_df, current_date, all_months,
                 monthly_arr_data, month_end, active_subs_month,
                 arr_summary_df, arr_rollforward_df, ym_in, ym_out, run_out,
                 missing_files>>

NextMain ==
  \/ Step1DataIngestion
  \/ Step2DataCleaning
  \/ NextRun

SpecMain == InitMain /\ [][NextMain]_vars

\* ------------------------------------------- month-end of any 'YYYY-MM'
InitMonthEnd ==
  /\ pc = "month_key"
  /\ \E y \in YearLo..YearHi, m \in 1..12 : ym_in = StrfYm(<<y, m, 1>>)
  /\ ym_out = NaT
  /\ subscriptions_df = <<>>
  /\ transactions_df = <<>>
  /\ current_date = NaT
  /\ all_months = <<>>
  /\ monthly_arr_data = <<>>
  /\ month_end = NaT
  /\ active_subs_month = {}
  /\ arr_summary_df = <<>>
  /\ arr_rollforward_df = <<>>
  /\ exported = NotExported
  /\ validation_issues = <<>>
  /\ validation_passed = "NA"
  /\ subscriptions = <<>>
  /\ segments = <<>>
  /\ NoApi
  /\ steps_run = <<>>
  /\ missing_files = {}

ComputeMonthEnd ==
  /\ pc = "month_key"
  /\ ym_out' = MonthEnd(ym_in)
  /\ pc' = "month_end"
  /\ UNCHANGED <<subscriptions_df, transactions_df, current_date, all_months,
                 monthly_arr_data, month_end, active_subs_month,
                 arr_summary_df, arr_rollforward_df, ym_in, run_out,
                 steps_run, missing_files>>

NextMonthEnd == ComputeMonthEnd

SpecMonthEnd == InitMonthEnd /\ [][NextMonthEnd]_vars

\* ========================================================== properties
\* A calendar day as one number, for comparing dates
DayKey(d) == d[1] * 10000 + d[2] * 100 + d[3]

\* The last calendar day of month m of year y, from the calendar table
LastDayOfMonth(y, m) ==
  IF m \in {1, 3, 5, 7, 8, 10, 12} THEN <<y, m, 31>>
  ELSE IF m \in {4, 6, 9, 11} THEN <<y, m, 30>>
  ELSE IF (y % 400 = 0) \/ (y % 4 = 0 /\ y % 100 # 0) THEN <<y, m, 29>>
  ELSE <<y, m, 28>>

\* Year and month number a 'YYYY-MM' key names
KeyYear(month) ==
  1000 * (month[1] - 48) + 100 * (month[2] - 48) + 10 * (month[3] - 48)
    + (month[4] - 48)

KeyMonth(month) == 10 * (month[6] - 48) + (month[7] - 48)

\* The last calendar day of the month a 'YYYY-MM' key names
LastDayOfKey(month) == LastDayOfMonth(KeyYear(month), KeyMonth(month))

\* Rows of subscriptions_df active on day d by the half-open interval rule
HalfOpenActive(d) ==
  {i \in 1..Len(subscriptions_df) :
     /\ DayKey(subscriptions_df[i].start_date) <= DayKey(d)
     /\ \/ subscriptions_df[i].end_date = NaT
        \/ DayKey(subscriptions_df[i].end_date) > DayKey(d)}

\* starting + new + expansion + contraction + churned - ending of a record
Drift(r) ==
  r.starting_arr + r.new_arr + r.expansion_arr + r.contraction_arr
    + r.churned_arr - r.ending_arr

RfRows == 1..Len(arr_rollforward_df)

\* C1: the first bridge record starts at 0 and every later record starts at
\* the ending_arr of the record before it.
C1_ChainLinked ==
  \A i \in RfRows :
    arr_rollforward_df[i].starting_arr =
      (IF i = 1 THEN 0 ELSE arr_rollforward_df[i - 1].ending_arr)

\* C1 witness: a chain of two records whose second starts at a non-zero
\* ending_arr of the first.
C1_Witness ==
  /\ Len(arr_rollforward_df) >= 2
  /\ arr_rollforward_df[1].ending_arr > 0
  /\ arr_rollforward_df[2].starting_arr = arr_rollforward_df[1].ending_arr
  /\ arr_rollforward_df[2].ending_arr # arr_rollforward_df[1].ending_arr

\* C2 (as claimed): every bridge record reconciles within the tolerance,
\* whatever the subscriptions and transactions.
C2_AlwaysReconciles ==
  \A i \in RfRows : Abs(Drift(arr_rollforward_df[i])) <= Tolerance

\* C2 (amended): a bridge record reconciles within the tolerance exactly when
\* its net_change is within the tolerance of ending_arr - starting_arr.
C2_ReconcilesIffNetMatchesSnapshot ==
  \A i \in RfRows :
    LET r == arr_rollforward_df[i]
    IN (Abs(Drift(r)) <= Tolerance)
         <=> (Abs(r.net_change - (r.ending_arr - r.starting_arr)) <= Tolerance)

\* C2 witness: a chain with one record that reconciles on non-zero
\* components and one record that drifts.
C2_Witness ==
  /\ \E i \in RfRows :
       /\ arr_rollforward_df[i].new_arr > 0
       /\ arr_rollforward_df[i].starting_arr > 0
       /\ Drift(arr_rollforward_df[i]) = 0
  /\ \E i \in RfRows : Abs(Drift(arr_rollforward_df[i])) > Tolerance

\* C3: the active set of the month being computed is exactly the
\* subscriptions with start_date <= month_end and (no end_date or
\* end_date > month_end).
C3_HalfOpenActiveSet ==
  (month_end # NaT) => (active_subs_month = HalfOpenActive(month_end))

\* C3 witness: at one month-end a subscription starting that day is in the
\* active set and one ending that day is not.
C3_Witness ==
  /\ month_end # NaT
  /\ \E i \in 1..Len(subscriptions_df) :
       /\ subscriptions_df[i].start_date = month_end
       /\ i \in active_subs_month
  /\ \E i \in 1..Len(subscriptions_df) :
       /\ subscriptions_df[i].end_date = month_end
       /\ DayKey(subscriptions_df[i].start_date) < DayKey(month_end)
       /\ i \notin active_subs_month

\* C4: every bridge record's ending_arr is the sum of arr_amount over the
\* subscriptions active at the last day of the record's month.
C4_EndingIsSnapshot ==
  \A i \in RfRows :
    arr_rollforward_df[i].ending_arr =
      SumOver([j \in 1..Len(subscriptions_df) |-> subscriptions_df[j].arr_amount],
              HalfOpenActive(LastDayOfKey(arr_rollforward_df[i].month)))

\* C4 witness: a record whose ending_arr sums one active subscription out
\* of two and differs from starting_arr plus the bridge components.
C4_Witness ==
  /\ Len(subscriptions_df) = 2
  /\ \E i \in RfRows :
       /\ arr_rollforward_df[i].ending_arr > 0
       /\ Cardinality(HalfOpenActive(LastDayOfKey(arr_rollforward_df[i].month))) = 1
       /\ Drift(arr_rollforward_df[i]) # 0

\* C5: the month_end computed for a 'YYYY-MM' key is the last calendar day
\* of that same month.
C5_MonthEndIsLastDay ==
  (pc = "month_end") => (ym_out = LastDayOfKey(ym_in))

\* C5 witness: the month_end of a leap-year February is the 29th.
C5_Witness ==
  /\ pc = "month_end"
  /\ ym_in = <<50, 48, 50, 52, 45, 48, 50>>
  /\ ym_out = <<2024, 2, 29>>

\* C6 (as claimed): contraction_arr and churned_arr of every bridge record
\* are non-positive.
C6_ReductionsNonPositive ==
  \A i \in RfRows :
    /\ arr_rollforward_df[i].contraction_arr <= 0
    /\ arr_rollforward_df[i].churned_arr <= 0

\* C7 (as claimed): net_change of every bridge record is ending_arr minus
\* starting_arr.
C7_NetChangeIsEndingMinusStarting ==
  \A i \in RfRows :
    arr_rollforward_df[i].net_change =
      arr_rollforward_df[i].ending_arr - arr_rollforward_df[i].starting_arr

\* C8 (as claimed): a bridge record with starting_arr = 0 reports a growth
\* rate of zero, never NaN or an infinite value.
C8_NoBaselineReportsZero ==
  \A i \in RfRows :
    (arr_rollforward_df[i].starting_arr = 0)
      => (arr_rollforward_df[i].growth_rate = Num(0))

\* C9 (as claimed): with starting_arr > 0 the growth rate is
\* 100 * net_change / starting_arr (to two decimals), net_change being the
\* record's own field.
C9_GrowthFromNetChange ==
  \A i \in RfRows :
    LET r == arr_rollforward_df[i]
    IN (r.starting_arr > 0)
         => (r.growth_rate = Num(RoundDiv(r.net_change * 10000, r.starting_arr)))

\* Rows of transactions_df dated in the calendar month of a key, of a type
TxnsOf(month, type) ==
  {i \in 1..Len(transactions_df) :
     /\ transactions_df[i].transaction_date[1] = KeyYear(month)
     /\ transactions_df[i].transaction_date[2] = KeyMonth(month)
     /\ transactions_df[i].transaction_type = type}

CategorySums(r) ==
  [new |-> r.new_arr, expansion |-> r.expansion_arr,
   contraction |-> r.contraction_arr, churn |-> r.churned_arr]

\* C10 (as claimed): every monthly category sum is 12 times the sum of
\* amount over the month's transactions of that type.
C10_SumsAreTwelveTimesAmount ==
  \A k \in 1..Len(monthly_arr_data) : \A type \in TxnTypes :
    CategorySums(monthly_arr_data[k])[type] =
      12 * SumOver([i \in 1..Len(transactions_df) |-> transactions_df[i].amount],
                   TxnsOf(monthly_arr_data[k].month, type))

\* C10 (amended): the new, expansion and contraction sums are 12 times the
\* sum of amount over the month's transactions of that type; the churn sum
\* is 12 times the sum of the absolute amounts.
C10_SumsWithAbsoluteChurn ==
  \A k \in 1..Len(monthly_arr_data) : \A type \in TxnTypes :
    CategorySums(monthly_arr_data[k])[type] =
      12 * SumOver([i \in 1..Len(transactions_df) |->
                      IF type = "churn" THEN Abs(transactions_df[i].amount)
                      ELSE transactions_df[i].amount],
                   TxnsOf(monthly_arr_data[k].month, type))

\* C10 witness: a month whose churn sum adds a positive and a negative
\* amount.
C10_Witness ==
  \E k \in 1..Len(monthly_arr_data) :
    /\ monthly_arr_data[k].churned_arr = 1200
    /\ \E i, j \in TxnsOf(monthly_arr_data[k].month, "churn") :
         transactions_df[i].amount < 0 /\ transactions_df[j].amount > 0

\* Months since year 0 of a 'YYYY-MM' key
MonthIndex(month) == 12 * KeyYear(month) + KeyMonth(month)

\* C11 (as claimed): consecutive records of the summary and of the chain are
\* consecutive calendar months.
C11_NoMonthGaps ==
  /\ \A i \in 1..(Len(arr_rollforward_df) - 1) :
       MonthIndex(arr_rollforward_df[i + 1].month)
         = MonthIndex(arr_rollforward_df[i].month) + 1
  /\ \A i \in 1..(Len(arr_summary_df) - 1) :
       MonthIndex(arr_summary_df[i + 1].month)
         = MonthIndex(arr_summary_df[i].month) + 1

\* C12: the chain is in strictly ascending calendar order and has exactly
\* one record for each month in which a transaction is dated.
C12_ChainChronological ==
  (Len(arr_rollforward_df) > 0) =>
    /\ \A i, j \in RfRows :
         (i < j) => MonthIndex(arr_rollforward_df[i].month)
                      < MonthIndex(arr_rollforward_df[j].month)
    /\ \A t \in 1..Len(transactions_df) : \E i \in RfRows :
         /\ KeyYear(arr_rollforward_df[i].month) = transactions_df[t].transaction_date[1]
         /\ KeyMonth(arr_rollforward_df[i].month) = transactions_df[t].transaction_date[2]
    /\ \A i \in RfRows : \E t \in 1..Len(transactions_df) :
         /\ KeyYear(arr_rollforward_df[i].month) = transactions_df[t].transaction_date[1]
         /\ KeyMonth(arr_rollforward_df[i].month) = transactions_df[t].transaction_date[2]

\* C12 witness: a ledger whose first row is dated after its second row, and
\* a chain of two records.
C12_Witness ==
  /\ Len(arr_rollforward_df) = 2
  /\ Len(transactions_df) = 2
  /\ DayKey(transactions_df[1].transaction_date)
       > DayKey(transactions_df[2].transaction_date)

\* C13 (as claimed): when any record of the chain is out of tolerance, the
\* validation reports the reconciliation issue and does not pass.
C13_EveryRecordValidated ==
  (pc = "done" /\ \E i \in RfRows : Abs(Drift(arr_rollforward_df[i])) > Tolerance)
    => /\ \E n \in 1..Len(validation_issues) : validation_issues[n] = "rollforward"
       /\ validation_passed = FALSE

\* C14 (as claimed): the reconciliation tolerance is a fraction of
\* ending_arr: a drift of more than one percent of the last record's
\* ending_arr is reported.
C14_ToleranceScalesWithEnding ==
  LET r == arr_rollforward_df[Len(arr_rollforward_df)]
  IN (pc = "done" /\ Abs(Drift(r)) * 100 > r.ending_arr)
       => \E n \in 1..Len(validation_issues) : validation_issues[n] = "rollforward"

\* C15: the validation step changes no record of the monthly summary or of
\* the rollforward chain.
C15_ValidatorLeavesChain ==
  [][(pc = "step6")
       => /\ arr_summary_df' = arr_summary_df
          /\ arr_rollforward_df' = arr_rollforward_df]_vars

\* C15 witness: a validation that failed on a chain of two records.
C15_Witness ==
  /\ pc = "done"
  /\ validation_passed = FALSE
  /\ Len(arr_summary_df) = 2
  /\ Len(arr_rollforward_df) = 2

\* C16 (as claimed): the chain is in the exported files only once the
\* validation has completed, and never when the reconciliation check failed.
C16_ExportAfterValidation ==
  exported.written
    => /\ pc = "done"
       /\ \A n \in 1..Len(validation_issues) : validation_issues[n] # "rollforward"

\* C17 (as claimed): a validation whose reconciliation check passed passes,
\* whatever the plausibility warnings.
C17_PlausibilityIsAdvisory ==
  (pc = "done"
     /\ \A n \in 1..Len(validation_issues) : validation_issues[n] # "rollforward")
    => validation_passed = TRUE

\* Rows of subscriptions_df with end_date <= start_date or a negative amount
FaultySubs ==
  {i \in 1..Len(subscriptions_df) :
     \/ /\ subscriptions_df[i].end_date # NaT
        /\ DayKey(subscriptions_df[i].end_date) <= DayKey(subscriptions_df[i].start_date)
     \/ subscriptions_df[i].arr_amount < 0}

\* C18 (as claimed): a subscription with a data integrity fault counts in no
\* month's customers and ARR, and is listed in the findings.
C18_FaultySubsExcluded ==
  /\ \A k \in 1..Len(monthly_arr_data) :
       LET ok == HalfOpenActive(LastDayOfKey(monthly_arr_data[k].month)) \ FaultySubs
       IN /\ monthly_arr_data[k].active_customers = Cardinality(ok)
          /\ monthly_arr_data[k].current_arr =
               SumOver([j \in 1..Len(subscriptions_df) |->
                          subscriptions_df[j].arr_amount], ok)
  /\ (pc = "done" /\ FaultySubs # {})
       => \E n \in 1..Len(validation_issues) : validation_issues[n] = "data_integrity"

\* C19: a run on an empty ledger fails with no summary, no chain, no export
\* and no validation; a run on a non-empty ledger never fails and has a chain
\* of one record per month once step 4 has returned.
C19_EmptyLedgerFails ==
  /\ (Len(transactions_df) = 0)
       => /\ pc \in {"step3", "step4", "step4_loop", "failed"}
          /\ arr_summary_df = <<>>
          /\ arr_rollforward_df = <<>>
          /\ ~exported.written
          /\ validation_passed = "NA"
  /\ (Len(transactions_df) > 0)
       => /\ pc # "failed"
          /\ (pc \in {"step5", "step6", "done"})
               => /\ Len(arr_rollforward_df) = Len(all_months)
                  /\ Len(arr_summary_df) = Len(all_months)
                  /\ Len(all_months) >= 1

\* C19 witness: a run on an empty ledger that failed in step 4.
C19_Witness ==
  /\ pc = "failed"
  /\ Len(transactions_df) = 0
  /\ current_date # NaT
  /\ Len(subscriptions_df) > 0

\* The percentages of the answer add up to 100
PercentagesSumTo100 ==
  /\ Len(segments) > 0
  /\ \A n \in 1..Len(segments) :
       segments[n].percentage[2] = segments[1].percentage[2]
  /\ SumOver([n \in 1..Len(segments) |-> segments[n].percentage[1]],
             1..Len(segments))
       = 100 * segments[1].percentage[2]

ActiveLoaded == {i \in 1..Len(subscriptions) : subscriptions[i].is_active = TRUE}

C21_ZeroTotalReportsZero ==
  (pc \in {"api_segments", "checker_segments"}
     /\ SumOver([i \in 1..Len(subscriptions) |-> subscriptions[i].arr_amount],
                ActiveLoaded) = 0)
    => \A n \in 1..Len(segments) :
         segments[n].percentage[1] = 0 /\ segments[n].percentage[2] # 0

\* The segment of the bin an amount falls in, either side of a boundary
BinsOf(a) ==
  (IF a <= 600 THEN {"SMB"} ELSE {})
    \cup (IF a >= 600 /\ a <= 2400 THEN {"Mid-Market"} ELSE {})
    \cup (IF a >= 2400 /\ a <= 6000 THEN {"Enterprise"} ELSE {})
    \cup (IF a >= 6000 THEN {"Strategic"} ELSE {})

\* C22 (as claimed): after feature engineering every subscription with
\* arr_amount >= 0, zero included, carries one of the four segments, the
\* one of the bin its amount falls in.
C22_EveryAmountSegmented ==
  (current_date # NaT)
    => \A i \in 1..Len(subscriptions_df) :
         subscriptions_df[i].arr_amount >= 0
           => subscriptions_df[i].customer_segment
                \in BinsOf(subscriptions_df[i].arr_amount)

\* The subscriptions feature engineering flagged is_active
FlaggedActive ==
  {i \in 1..Len(subscriptions_df) : subscriptions_df[i].is_active = TRUE}

\* C23 (as claimed): once the chain is built, the subscriptions flagged
\* is_active are those active at the last chain month's month-end, and the
\* segment totals add up to the current_arr of the last record.
C23_SegmentsFromLatestSnapshot ==
  (pc = "step5")
    => /\ FlaggedActive
            = ActiveSubsMonth(subscriptions_df,
                              MonthEnd(all_months[Len(all_months)]))
       /\ LET seg == GetSegments(subscriptions_df)
          IN SumOver([n \in 1..Len(seg) |-> seg[n].arr], 1..Len(seg))
               = arr_summary_df[Len(arr_summary_df)].current_arr

LoadedNonEmpty ==
  /\ loaded = DatasetNames
  /\ Len(arr_summary) > 0
  /\ Len(arr_rollforward) > 0
  /\ Len(subscriptions) > 0

\* C25: with the three datasets loaded and non-empty, /api/kpis,
\* /api/waterfall and /api/segments answer 200 with the values of the last
\* record (or the segment list); /api/kpis and /api/waterfall answer 500
\* 'Data not loaded' exactly when their dataset was never loaded.
C25_EndpointsAnswer ==
  /\ (pc = "api_kpis")
       => /\ LoadedNonEmpty
               => /\ response.status = 200
                  /\ response.body.current_arr
                       = arr_summary[Len(arr_summary)].current_arr
                  /\ response.body.active_customers
                       = arr_summary[Len(arr_summary)].active_customers
          /\ (response.status = 500 /\ response.error = "Data not loaded")
               <=> ("arr_summary" \notin loaded)
  /\ (pc = "api_waterfall")
       => /\ LoadedNonEmpty
               => /\ response.status = 200
                  /\ response.body.month
                       = arr_rollforward[Len(arr_rollforward)].month
                  /\ response.body.starting_arr
                       = arr_rollforward[Len(arr_rollforward)].starting_arr
          /\ (response.status = 500 /\ response.error = "Data not loaded")
               <=> ("arr_rollforward" \notin loaded)
  /\ (pc = "api_segments" /\ LoadedNonEmpty)
       => /\ response.status = 200
          /\ response.body = GetSegments(subscriptions)

\* C25 witness: /api/kpis answered 200 for a last month without an active
\* customer, all three datasets loaded and non-empty.
C25_Witness ==
  /\ pc = "api_kpis"
  /\ LoadedNonEmpty
  /\ response.status = 200
  /\ response.body.active_customers = 0

\* C29 (as claimed): after load_data returned False no dataset is loaded,
\* after it returned True all three are.
C29_LoadIsAllOrNothing ==
  /\ (load_ok = "False") => loaded = {}
  /\ (load_ok = "True") => loaded = DatasetNames

\* C26: in every rollforward record net_change is the sum of the signed
\* components stored in that record.
C26_NetChangeIsSumOfComponents ==
  \A i \in RfRows :
    arr_rollforward_df[i].net_change
      = arr_rollforward_df[i].new_arr + arr_rollforward_df[i].expansion_arr
          + arr_rollforward_df[i].contraction_arr
          + arr_rollforward_df[i].churned_arr

\* C26 witness: a record with a contraction and a churn, both stored negative.
C26_Witness ==
  \E i \in RfRows :
    /\ arr_rollforward_df[i].contraction_arr < 0
    /\ arr_rollforward_df[i].churned_arr < 0
    /\ arr_rollforward_df[i].net_change < 0

\* The latest month's arr_per_customer is within [300, 5000]
LatestPerCustomerInRange ==
  LET latest == arr_summary_df[Len(arr_summary_df)]
  IN /\ latest.arr_per_customer[1] >= 300 * latest.arr_per_customer[2]
     /\ latest.arr_per_customer[1] <= 5000 * latest.arr_per_customer[2]

\* The months of the summary that have a growth rate (not NaN)
MonthsWithGrowth ==
  {i \in 1..Len(arr_summary_df) : arr_summary_df[i].arr_growth_rate.kind # "nan"}

\* The mean growth rate exists: some month has a rate, and the rates do not
\* hold both infinities
MeanGrowthDefined ==
  /\ MonthsWithGrowth # {}
  /\ ~(/\ \E i \in MonthsWithGrowth : arr_summary_df[i].arr_growth_rate.kind = "inf"
       /\ \E i \in MonthsWithGrowth : arr_summary_df[i].arr_growth_rate.kind = "neginf")

\* The mean growth rate (rates in hundredths of a percent) is within [-10, 50]
MeanGrowthInRange ==
  /\ \A i \in MonthsWithGrowth : arr_summary_df[i].arr_growth_rate.kind = "num"
  /\ LET total == SumOver([i \in 1..Len(arr_summary_df) |->
                             arr_summary_df[i].arr_growth_rate.val],
                          MonthsWithGrowth)
     IN /\ total >= (0 - 10) * 100 * Cardinality(MonthsWithGrowth)
        /\ total <= 50 * 100 * Cardinality(MonthsWithGrowth)

\* The last rollforward record reconciles within 100
LastRecordWithinTolerance ==
  LET r == arr_rollforward_df[Len(arr_rollforward_df)]
  IN Abs(r.starting_arr + r.new_arr + r.expansion_arr + r.contraction_arr
           + r.churned_arr - r.ending_arr) <= 100

\* C28 (as claimed): validation returns true exactly when the latest
\* arr_per_customer is in range, the mean growth rate exists and is in
\* range, and the last record reconciles.
C28_PassesIffThreeChecks ==
  (pc = "done")
    => (validation_passed = TRUE
          <=> /\ LatestPerCustomerInRange
              /\ MeanGrowthDefined /\ MeanGrowthInRange
              /\ LastRecordWithinTolerance)

\* C28 (amended): validation returns true exactly when the latest
\* arr_per_customer is in range, the mean growth rate is in range or does
\* not exist (no month has a rate), and the last record reconciles.
C28_PassesIffThreeChecksOrNoMean ==
  (pc = "done")
    => (validation_passed = TRUE
          <=> /\ LatestPerCustomerInRange
              /\ (MeanGrowthDefined => MeanGrowthInRange)
              /\ LastRecordWithinTolerance)

\* C28 witness: a chain of one month, hence without a growth rate, whose
\* arr_per_customer is exactly 300, passes validation.
C28_Witness ==
  /\ pc = "done"
  /\ validation_passed = TRUE
  /\ Len(arr_summary_df) = 1
  /\ arr_summary_df[1].arr_per_customer = <<300, 1>>

\* C30 (as claimed): in every month of the summary active_customers is the
\* number of distinct customers with a subscription active at the month-end,
\* and arr_per_customer is current_arr / active_customers, or 0 without any.
C30_DistinctCustomersCounted ==
  \A n \in 1..Len(arr_summary_df) :
    LET row == arr_summary_df[n]
        act == HalfOpenActive(LastDayOfKey(row.month))
    IN /\ row.active_customers
            = Cardinality({subscriptions_df[i].customer_id : i \in act})
       /\ row.arr_per_customer
            = IF row.active_customers > 0
                THEN <<row.current_arr, row.active_customers>>
                ELSE <<0, 1>>

AllSteps == <<"step1", "step2", "step3", "step4", "step5", "step6">>

\* The steps run so far are the first steps of the pipeline, in its order
StepsInOrder ==
  /\ Len(steps_run) <= 6
  /\ \A n \in 1..Len(steps_run) : steps_run[n] = AllSteps[n]

\* Ingestion returned nothing: no later step has run, nothing is written
StoppedAtIngestion ==
  /\ pc \in {"step1", "stopped"}
  /\ Len(steps_run) <= 1
  /\ exported = NotExported
  /\ validation_passed = "NA"

\* A run that has not ended is inside one of the six steps, and the loop
\* of step 4 has not passed its last month: its next statement can run
RunGoesOn ==
  \/ pc \in {"step1", "step2", "step3", "step4", "step5", "step6"}
  \/ pc = "step4_loop" /\ Len(monthly_arr_data) <= Len(all_months)

====
